---- MODULE Spec2Model ----
(***************************************************************************)
(* betterpathlib: the numeric-suffix path algebra and the atomic mutation  *)
(* layer of class Path (src/src/betterpathlib/main.py), with the older     *)
(* copy of the directory operations in src/betterpath/main.py.             *)
(*                                                                         *)
(* A file name is a sequence of one-character strings, a path is the       *)
(* sequence of its segments below the root.  The pathlib properties the    *)
(* methods are built on (name, suffix, suffixes, stem, with_name,          *)
(* with_suffix) are computed character by character the way CPython 3.11   *)
(* computes them.  A method that may raise returns a record                *)
(* [tag, val]: tag "ok" with the value, or the exception's name.           *)
(***************************************************************************)
EXTENDS Integers, Sequences, FiniteSets, TLC

\* ------------------------------------------------------------ characters
DOT == "."
DigitSeq == <<"0", "1", "2", "3", "4", "5", "6", "7", "8", "9">>
DigitChars == {DigitSeq[i] : i \in 1..10}

\* str.isdigit() on ASCII text: non-empty and every character a digit
isdigit(s) == Len(s) > 0 /\ \A i \in 1..Len(s) : s[i] \in DigitChars

DigitVal(c) == CHOOSE k \in 0..9 : DigitSeq[k + 1] = c

\* int(s) for a digit string
RECURSIVE int(_)
int(s) ==
  IF Len(s) = 0 THEN 0
  ELSE 10 * int(SubSeq(s, 1, Len(s) - 1)) + DigitVal(s[Len(s)])

\* str(n) for n >= 0
RECURSIVE str(_)
str(n) ==
  IF n < 10 THEN <<DigitSeq[n + 1]>>
  ELSE str(n \div 10) \o <<DigitSeq[(n % 10) + 1]>>

\* s.zfill(w): pad on the left with "0" up to width w, never truncate
zfill(s, w) ==
  IF Len(s) >= w THEN s ELSE [i \in 1..(w - Len(s)) |-> "0"] \o s

\* s.find(c) and s.rfind(c), 1-based, 0 when c does not occur (Python: -1)
find(s, c) ==
  IF \E i \in 1..Len(s) : s[i] = c
  THEN CHOOSE i \in 1..Len(s) : s[i] = c /\ \A j \in 1..(i - 1) : s[j] # c
  ELSE 0
rfind(s, c) ==
  IF \E i \in 1..Len(s) : s[i] = c
  THEN CHOOSE i \in 1..Len(s) : s[i] = c /\ \A j \in (i + 1)..Len(s) : s[j] # c
  ELSE 0

startswith(s, t) == Len(s) >= Len(t) /\ SubSeq(s, 1, Len(t)) = t

\* s.lstrip(".")
RECURSIVE lstripDots(_)
lstripDots(s) ==
  IF Len(s) > 0 /\ s[1] = DOT THEN lstripDots(Tail(s)) ELSE s

\* s.split("."): the pieces between the dots (always at least one piece)
RECURSIVE split(_)
split(s) ==
  LET i == find(s, DOT)
  IN IF i = 0 THEN <<s>>
     ELSE <<SubSeq(s, 1, i - 1)>> \o split(SubSeq(s, i + 1, Len(s)))

\* "".join(parts)
RECURSIVE join(_)
join(parts) ==
  IF Len(parts) = 0 THEN <<>> ELSE Head(parts) \o join(Tail(parts))

\* ------------------------------------------------------------ results
Ok(v) == [tag |-> "ok", val |-> v]
Raise(e) == [tag |-> e, val |-> <<>>]
\* r >>= F: the rest of a method runs only when the call before it returned
Then(r, F(_)) == IF r.tag = "ok" THEN F(r.val) ELSE r

\* ------------------------------------------------------------ pathlib
\* PurePath.name: the last segment, "" for the root
name(p) == IF Len(p) = 0 THEN <<>> ELSE p[Len(p)]
\* PurePath.parent: the root is its own parent
parent(p) == IF Len(p) = 0 THEN p ELSE SubSeq(p, 1, Len(p) - 1)
\* parent / seg: joining an empty segment gives the parent itself
joinpath(p, seg) == IF Len(seg) = 0 THEN p ELSE Append(p, seg)

\* PurePath.suffix: from the last dot on, unless that dot is first or last
suffix(p) ==
  LET n == name(p)
      i == rfind(n, DOT)
  IN IF 1 < i /\ i < Len(n) THEN SubSeq(n, i, Len(n)) ELSE <<>>

\* PurePath.stem: the name minus suffix
stem(p) ==
  LET n == name(p)
      i == rfind(n, DOT)
  IN IF 1 < i /\ i < Len(n) THEN SubSeq(n, 1, i - 1) ELSE n

\* PurePath.suffixes
suffixes(p) ==
  LET n == name(p)
  IN IF Len(n) > 0 /\ n[Len(n)] = DOT THEN <<>>
     ELSE LET parts == Tail(split(lstripDots(n)))
          IN [i \in 1..Len(parts) |-> <<DOT>> \o parts[i]]

\* PurePath.with_name(new)
with_name(p, new) ==
  IF Len(name(p)) = 0 THEN Raise("ValueError")
  ELSE IF Len(new) = 0 THEN Raise("ValueError")
  ELSE Ok(Append(parent(p), new))

\* PurePath.with_suffix(suf)
with_suffix(p, suf) ==
  IF (Len(suf) > 0 /\ suf[1] # DOT) \/ suf = <<DOT>> THEN Raise("ValueError")
  ELSE IF Len(name(p)) = 0 THEN Raise("ValueError")
  ELSE LET old == suffix(p)
           n == name(p)
       IN Ok(Append(parent(p), SubSeq(n, 1, Len(n) - Len(old)) \o suf))


\* ------------------------------------------------------------ suffix algebra
Last(s) == s[Len(s)]
\* x if x.startswith(".") else "." + x
dotted(x) == IF startswith(x, <<DOT>>) THEN x ELSE <<DOT>> \o x
\* s[1:] of a suffix token: the text after its leading dot
afterDot(s) == IF Len(s) = 0 THEN <<>> ELSE Tail(s)

\* Path.add_suffix
add_suffix(p, suf) == with_name(p, name(p) \o dotted(suf))

\* Path.has_numerical_suffix
has_numerical_suffix(p) ==
  Ok(\E i \in 1..Len(suffixes(p)) : isdigit(afterDot(suffixes(p)[i])))

\* Path.has_primary_numerical_suffix: self.suffixes[-1] is read unguarded
has_primary_numerical_suffix(p) ==
  IF Len(suffixes(p)) = 0 THEN Raise("IndexError")
  ELSE Ok(isdigit(afterDot(Last(suffixes(p)))))

\* Path.without_suffixes
without_suffixes(p) ==
  LET st == stem(p)
      ix == find(st, DOT)
      nm == IF ix > 0 THEN SubSeq(st, 1, ix - 1) ELSE st
  IN joinpath(parent(p), nm)

\* Path.with_suffixes
with_suffixes(p, sufs) ==
  with_suffix(without_suffixes(p),
              join([i \in 1..Len(sufs) |-> dotted(sufs[i])]))

\* Path.without_suffix; suf = <<>> stands for None (and for "", falsy alike)
without_suffix(p, suf) ==
  IF Len(suf) > 0
  THEN LET s == dotted(suf)
           keep == SelectSeq(suffixes(p), LAMBDA t : t # s)
       IN with_suffix(without_suffixes(p), join(keep))
  ELSE with_suffixes(without_suffixes(p),
                     SubSeq(suffixes(p), 1, Len(suffixes(p)) - 1))

\* Path.increase_numerical_width of src/src/betterpathlib/main.py: the guard
\* is has_numerical_suffix (any suffix), the token padded is self.suffix
increase_numerical_width(p, n_digs) ==
  IF ~has_numerical_suffix(p).val THEN Raise("ValueError")
  ELSE LET n == afterDot(suffix(p))
       IN with_suffix(p, <<DOT>> \o zfill(n, n_digs))

\* Path.increase_numerical_width of src/betterpath/main.py: the same with a
\* width test on the last suffix
increase_numerical_width_old(p, n_digs) ==
  IF ~has_numerical_suffix(p).val THEN Raise("ValueError")
  ELSE LET n == afterDot(suffix(p))
       IN IF ~(n_digs >= Len(n)) THEN Raise("ValueError")
          ELSE with_suffix(p, <<DOT>> \o zfill(n, n_digs))

\* del lst[i] and lst.insert(i, x) for 1-based i; insert clamps its index the
\* way list.insert does (Python index -1 on an empty list inserts at 0)
del(lst, i) == SubSeq(lst, 1, i - 1) \o SubSeq(lst, i + 1, Len(lst))
insert(lst, i, x) ==
  LET k == IF i < 1 THEN 1 ELSE IF i > Len(lst) + 1 THEN Len(lst) + 1 ELSE i
  IN SubSeq(lst, 1, k - 1) \o <<x>> \o SubSeq(lst, k, Len(lst))

\* Path.make_numerical_suffix_nonprimary: self.suffixes[-1] is read unguarded;
\* suffixes.insert(len(suffixes) - 1, ext) after the del
make_numerical_suffix_nonprimary(p) ==
  IF Len(suffixes(p)) = 0 THEN Raise("IndexError")
  ELSE LET ext == Last(suffixes(p))
       IN IF ~isdigit(afterDot(ext)) THEN Raise("ValueError")
          ELSE LET rest == del(suffixes(p), Len(suffixes(p)))
               IN with_suffixes(p, insert(rest, Len(rest), ext))

\* Path.make_numerical_suffix_primary: the first numeric token goes last
make_numerical_suffix_primary(p) ==
  IF ~has_numerical_suffix(p).val THEN Raise("ValueError")
  ELSE LET sufs == suffixes(p)
           ix == CHOOSE i \in 1..Len(sufs) :
                   /\ isdigit(afterDot(sufs[i]))
                   /\ \A j \in 1..(i - 1) : ~isdigit(afterDot(sufs[j]))
       IN with_suffixes(p, Append(del(sufs, ix), sufs[ix]))

\* Path.without_suffix of src/betterpath/main.py: the token is required
without_suffix_old(p, suf) ==
  LET s == dotted(suf)
      keep == SelectSeq(suffixes(p), LAMBDA t : t # s)
  IN with_suffix(without_suffixes(p), join(keep))

\* ------------------------------------------------------------ directory
\* The tree is the root, one directory d below it, and regular files in
\* either; `files` is the set of the paths of the regular files, `listing`
\* the same paths in the order scandir yields them.
DirName == <<"d">>
DirPath == <<DirName>>
InDir(n) == Append(DirPath, n)
Range(s) == {s[i] : i \in 1..Len(s)}
\* Path.is_dir()
is_dir(p) == p = <<>> \/ p = DirPath
\* Path.exists()
exists(p, files) == is_dir(p) \/ p \in files
\* os.scandir(p): the entries of directory p, in listing order
scandir(p, listing) ==
  IF ~is_dir(p) THEN <<>>
  ELSE (IF p = <<>> THEN <<DirPath>> ELSE <<>>)
       \o SelectSeq(listing, LAMBDA q : Len(q) > 0 /\ parent(q) = p)
\* Path.glob(prefix + "*") for a prefix free of wildcard characters
glob(p, prefix, listing) ==
  SelectSeq(scandir(p, listing), LAMBDA q : startswith(name(q), prefix))

\* the loop of next_unused_path: while path.exists(): ext_i += 1; ...
RECURSIVE probe(_, _, _, _)
probe(path, ext_i, n_digs, files) ==
  IF exists(path, files)
  THEN Then(with_suffix(path, <<DOT>> \o zfill(str(ext_i + 1), n_digs)),
            LAMBDA q : probe(q, ext_i + 1, n_digs, files))
  ELSE Ok(path)

\* Path.next_unused_path of src/src/betterpathlib/main.py
next_unused_path(p, start, n_digs, files) ==
  LET ext == afterDot(suffix(p))
      num == isdigit(ext)
      w == IF num THEN Len(ext) ELSE n_digs
      ext_i == IF num THEN int(ext) + 1 ELSE start
      path == IF num THEN Ok(p) ELSE add_suffix(p, <<DOT, "p", "h">>)
  IN Then(path, LAMBDA q :
       Then(with_suffix(q, <<DOT>> \o zfill(str(ext_i), w)),
            LAMBDA c : probe(c, ext_i, w, files)))

\* Path.next_unused_path of src/betterpath/main.py: `path` is bound only on
\* the non-numeric branch, so the numeric branch reads an unbound local
next_unused_path_old(p, start, n_digs, files) ==
  LET ext == afterDot(suffix(p))
  IN IF isdigit(ext) THEN Raise("UnboundLocalError")
     ELSE Then(add_suffix(p, <<DOT, "p", "h">>), LAMBDA q :
            Then(with_suffix(q, <<DOT>> \o zfill(str(start), n_digs)),
                 LAMBDA c : probe(c, start, n_digs, files)))

\* the loop of last_numerical_path over the globbed candidates
RECURSIVE scan(_, _, _)
scan(cands, best, best_n) ==
  IF Len(cands) = 0 THEN Ok(best)
  ELSE LET c == Head(cands)
       IN IF Len(suffixes(c)) = 0 THEN Raise("IndexError")
          ELSE LET s == afterDot(Last(suffixes(c)))
               IN IF isdigit(s) /\ int(s) >= best_n
                  THEN scan(Tail(cands), c, int(s))
                  ELSE scan(Tail(cands), best, best_n)

\* Path.last_numerical_path
last_numerical_path(p, listing) ==
  IF Len(suffixes(p)) = 0 THEN Raise("IndexError")
  ELSE LET s == afterDot(Last(suffixes(p)))
           path == IF isdigit(s) THEN without_suffix(p, s) ELSE Ok(p)
       IN Then(path, LAMBDA q :
            Then(scan(glob(parent(q), name(q) \o <<DOT>>, listing), q, 0),
                 LAMBDA best : IF exists(best, Range(listing)) THEN Ok(best)
                               ELSE Raise("FileNotFoundError")))

\* ------------------------------------------------------------ bounds
\* longest file name of the suffix-algebra runs
MaxNameLen == 5
\* most files in the directory
MaxFiles == 3
\* largest `start` and `n_digs` arguments of next_unused_path
MaxStart == 1
MaxPad == 2
\* largest width asked of increase_numerical_width
MaxWidth == 3
\* longest token list given to with_suffixes
MaxTokens == 2

\* the characters file names are made of
NameChars == {"f", DOT, "0", "1"}

RECURSIVE SeqsUpTo(_, _)
SeqsUpTo(S, n) ==
  IF n = 0 THEN {<<>>}
  ELSE LET shorter == SeqsUpTo(S, n - 1)
       IN shorter \cup {Append(s, c) : s \in shorter, c \in S}

\* file names: non-empty, and not opening with two dots ("..", "..x" are
\* resolved by the path parser, not kept as names)
Names ==
  {n \in SeqsUpTo(NameChars, MaxNameLen) :
     Len(n) > 0 /\ n # <<DOT>> /\ ~startswith(n, <<DOT, DOT>>)}

\* the tokens given to with_suffixes and without_suffix: with and without
\* the leading dot, numeric and not
Tokens == {<<DOT, "f">>, <<"f">>, <<DOT, "1">>, <<"0">>}
TokenLists == SeqsUpTo(Tokens, MaxTokens)

\* the numbered file families of the directory runs: a base name, bare or
\* followed by one numeric token
Bases == {<<"f">>, <<"f", DOT, "x">>, <<"f", DOT, "1">>}
NumTokens == {<<DOT, "1">>, <<DOT, "3">>, <<DOT, "4">>, <<DOT, "0", "1">>}
Family == {b \o t : b \in Bases, t \in {<<>>} \cup NumTokens}

\* every way to list the set S
Listings(S) ==
  {l \in [1..Cardinality(S) -> S] : \A i, j \in 1..Cardinality(S) :
                                       i # j => l[i] # l[j]}

VARIABLES
  fs,     \* the regular files: path -> content (a sequence of chunks)
  call,   \* the last suffix-algebra call: method, self, arguments, result
  procs,  \* per caller: the atomic-mutation call it is in, step by step
  prev    \* the atomic-mutation call that returned last

vars == <<fs, call, procs, prev>>

Files == DOMAIN fs
NoFiles == [q \in {} |-> <<>>]

NoCall == [op |-> "none", self |-> <<>>, start |-> 0, n_digs |-> 0,
           args |-> <<>>, res |-> Ok(<<>>)]
Called(o, p, r) == [op |-> o, self |-> p, start |-> 0, n_digs |-> 0,
                    args |-> <<>>, res |-> r]
\* a call with an integer argument, and one with a token or a token list
CalledN(o, p, n, r) == [Called(o, p, r) EXCEPT !.n_digs = n]
CalledWith(o, p, a, r) == [Called(o, p, r) EXCEPT !.args = a]

\* ------------------------------------------------------------ atomic mutation layer
\* callers that may run at once, and chunks in one content
NumProcs == 2
DataLen == 2
Procs == 1..NumProcs

\* the complete content caller p writes (or downloads), chunk by chunk
Data(p) == [i \in 1..DataLen |-> <<p, i>>]
\* the content of the files that are there before any call
OldData == <<<<0, 1>>>>
\* what a read returns for a gap left by a write beyond the end of file
Hole == <<0, 0>>

TMP == <<DOT, "t", "m", "p">>
FName == <<"f">>
GName == <<"g">>

\* what a reader of `path` observes
Snapshot(path, F) ==
  IF path \in DOMAIN F THEN [present |-> TRUE, bytes |-> F[path]]
  ELSE [present |-> FALSE, bytes |-> <<>>]
Gone == [present |-> FALSE, bytes |-> <<>>]

\* an open file object: the file it writes (followed through renames, lost to
\* the name space when the file is unlinked or replaced), its file position
\* and the data still in its user-space buffer
NoHandle == [open |-> FALSE, linked |-> FALSE, target |-> <<>>, pos |-> 0,
             buf |-> <<>>]

\* pwrite(content, pos, chunks)
WriteAt(content, pos, chunks) ==
  LET end == pos + Len(chunks)
      len == IF Len(content) > end THEN Len(content) ELSE end
  IN [i \in 1..len |->
        IF i > pos /\ i <= end THEN chunks[i - pos]
        ELSE IF i <= Len(content) THEN content[i] ELSE Hole]

\* flush h's buffer into its file
Flush(F, h) ==
  IF h.open /\ h.linked /\ h.target \in DOMAIN F /\ Len(h.buf) > 0
  THEN [F EXCEPT ![h.target] = WriteAt(@, h.pos, h.buf)]
  ELSE F
Flushed(h) == [h EXCEPT !.pos = @ + Len(h.buf), !.buf = <<>>]

\* os.replace(src, dst) on the name space
Rename(F, src, dst) ==
  [q \in (DOMAIN F \ {src}) \cup {dst} |-> IF q = dst THEN F[src] ELSE F[q]]
\* os.unlink(path)
Remove(F, path) == [q \in DOMAIN F \ {path} |-> F[q]]
\* open(path, "w"): create or truncate
Truncate(F, path) ==
  [q \in DOMAIN F \cup {path} |-> IF q = path THEN <<>> ELSE F[q]]

\* what a rename and an unlink do to an open file object of any caller
Renamed(h, src, dst) ==
  IF ~h.open \/ ~h.linked THEN h
  ELSE IF h.target = dst THEN [h EXCEPT !.linked = FALSE]
  ELSE IF h.target = src THEN [h EXCEPT !.target = dst]
  ELSE h
Unlinked(h, path) ==
  IF h.open /\ h.linked /\ h.target = path THEN [h EXCEPT !.linked = FALSE]
  ELSE h

Idle ==
  [pc |-> "idle", op |-> "none", self |-> <<>>, fname |-> <<>>,
   progress |-> FALSE, dest |-> <<>>, tmp |-> <<>>, h |-> NoHandle,
   exc |-> "none", first |-> "none", reqs |-> 0, total |-> 0, avail |-> 0,
   sent |-> 0, prior |-> Gone, res |-> <<>>, created |-> FALSE,
   renamed |-> FALSE, published |-> Gone, cleanupFailed |-> FALSE,
   fast |-> FALSE, site |-> "none", firstSite |-> "none", before |-> NoFiles,
   cand |-> <<>>, ext_i |-> 0, start |-> 0, n_digs |-> 0]

NoPrev == [op |-> "none", self |-> <<>>, fname |-> <<>>, progress |-> FALSE,
           pc |-> "idle", res |-> <<>>, reqs |-> 0, calls |-> 0]

InFlight(pr) == pr.pc \notin {"idle", "done", "failed"}
Over(pr) == pr.pc \in {"done", "failed"}
Streaming(pr) == pr.op = "or_download" /\ pr.progress

\* files that may be there before the first call
Preexisting ==
  {InDir(FName), InDir(FName \o TMP), InDir(FName \o TMP \o <<DOT, "0", "0", "0">>),
   InDir(GName)}
\* temporary files that failed cleanups have left behind; the runs stop
\* injecting cleanup failures once MaxLeftover of them lie around
Leftover == Files \ Preexisting
MaxLeftover == 1
\* calls the single caller of the sequential runs makes one after the other
MaxCalls == 2

\* a write in place: the destination itself is opened
AtomicTmpInPlace(path, files) == Ok(path)

\* tmp = self.add_suffix(".tmp").next_unused_path().resolve()
AtomicTmp(path, files) ==
  Then(add_suffix(path, TMP), LAMBDA q : next_unused_path(q, 0, 3, files))

\* tmp_file_path = self.parent / f"{self.name}.tmp"
DownloadTmp(path) == Append(parent(path), name(path) \o TMP)

\* a finally block that never removes anything
TmpExistsNever(tmp, files) == FALSE

\* if tmp.exists(): of the finally blocks
TmpExists(tmp, files) == exists(tmp, files)

\* a download that does not look for the destination first
NeverThere(fp, files) == FALSE

\* file_path.exists() / self.exists() of or_download
AlreadyThere(fp, files) == exists(fp, files)

\* a test that takes every file name, the empty one too
NoFileNameNever(file_name) == FALSE

\* if not file_name: of or_download called on a directory
NoFileName(file_name) == Len(file_name) = 0

\* the number of chunks the call has to write into its temporary file
Due(pr) == IF Streaming(pr) THEN pr.avail ELSE DataLen

\* an exception raised inside the try block: the finally block is next
Raised(pr, e) ==
  [pr EXCEPT !.exc = e, !.first = IF @ = "none" THEN e ELSE @,
             !.site = pr.pc, !.firstSite = IF @ = "none" THEN pr.pc ELSE @,
             !.pc = "finally", !.h = NoHandle]

\* the try/finally statement is left: the pending exception propagates, the
\* streaming download still compares the byte count, the others return
Leave(pr) ==
  IF pr.exc # "none" THEN [pr EXCEPT !.pc = "failed"]
  ELSE IF Streaming(pr) THEN [pr EXCEPT !.pc = "check"]
  ELSE [pr EXCEPT !.pc = "done",
                  !.res = IF pr.op = "or_download" THEN pr.dest ELSE <<>>]

\* every open file object sees a rename or an unlink; caller p's own record
\* becomes `mine`
AfterRename(p, mine, src, dst) ==
  [q \in Procs |->
     IF q = p THEN [mine EXCEPT !.h = Renamed(mine.h, src, dst)]
     ELSE [procs[q] EXCEPT !.h = Renamed(@, src, dst)]]
AfterUnlink(p, mine, path) ==
  [q \in Procs |->
     IF q = p THEN [mine EXCEPT !.h = Unlinked(mine.h, path)]
     ELSE [procs[q] EXCEPT !.h = Unlinked(@, path)]]

\* Path.atomic_write(data) is entered
StartAtomicWrite(p, path) ==
  /\ procs[p].pc = "idle"
  /\ procs' = [procs EXCEPT ![p] =
       [Idle EXCEPT !.pc = "tmp", !.op = "atomic_write", !.self = path,
                    !.dest = path, !.prior = Snapshot(path, fs),
                    !.before = fs]]
  /\ UNCHANGED <<fs, call, prev>>

\* Path.atomic_write_with(write_fn) is entered
StartAtomicWriteWith(p, path) ==
  /\ procs[p].pc = "idle"
  /\ procs' = [procs EXCEPT ![p] =
       [Idle EXCEPT !.pc = "tmp", !.op = "atomic_write_with", !.self = path,
                    !.dest = path, !.prior = Snapshot(path, fs),
                    !.before = fs]]
  /\ UNCHANGED <<fs, call, prev>>

\* Path.or_download(url, progress_bar) is entered; fname is the file name
\* of the URL's path component
StartOrDownload(p, path, fname, progress) ==
  /\ procs[p].pc = "idle"
  /\ procs' = [procs EXCEPT ![p] =
       [Idle EXCEPT !.pc = "resolve", !.op = "or_download", !.self = path,
                    !.fname = fname, !.progress = progress,
                    !.before = fs]]
  /\ UNCHANGED <<fs, call, prev>>

\* the temporary name of atomic_write and atomic_write_with
TmpPath(p) ==
  LET pr == procs[p]
      t == AtomicTmp(pr.self, Files)
  IN /\ pr.pc = "tmp"
     /\ procs' = [procs EXCEPT ![p] =
          IF t.tag = "ok" THEN [pr EXCEPT !.pc = "open", !.tmp = t.val]
          ELSE [pr EXCEPT !.pc = "failed", !.exc = t.tag, !.first = t.tag,
                          !.site = "tmp", !.firstSite = "tmp"]]
     /\ UNCHANGED <<fs, call, prev>>

\* or_download: the destination is resolved and looked for
Resolve(p) ==
  LET pr == procs[p]
      isdir == is_dir(pr.self)
      fp == IF isdir THEN Append(pr.self, pr.fname) ELSE pr.self
      here == AlreadyThere(fp, Files)
  IN /\ pr.pc = "resolve"
     /\ procs' = [procs EXCEPT ![p] =
          IF isdir /\ NoFileName(pr.fname)
          THEN [pr EXCEPT !.pc = "failed", !.exc = "ValueError",
                          !.first = "ValueError", !.site = "resolve",
                          !.firstSite = "resolve"]
          ELSE IF here
          THEN [pr EXCEPT !.pc = "done", !.dest = fp, !.res = fp,
                          !.fast = TRUE, !.prior = Snapshot(fp, fs)]
          ELSE [pr EXCEPT !.pc = "get", !.dest = fp,
                          !.prior = Snapshot(fp, fs)]]
     /\ UNCHANGED <<fs, call, prev>>

\* download(): requests.get and raise_for_status.  A response advertises a
\* content length (0: none) and delivers the body; a streamed body may end
\* early without an error, which is what the byte count is compared for.
Get(p) ==
  LET pr == procs[p]
      sent == [pr EXCEPT !.reqs = @ + 1, !.tmp = DownloadTmp(pr.self)]
  IN /\ pr.pc = "get"
     /\ \/ procs' = [procs EXCEPT ![p] =
             [sent EXCEPT !.pc = "failed", !.exc = "RequestException",
                          !.first = "RequestException", !.site = "get",
                          !.firstSite = "get"]]
        \/ \E total \in {0, DataLen}, avail \in 0..DataLen :
             /\ pr.progress \/ avail = DataLen
             /\ procs' = [procs EXCEPT ![p] =
                  [sent EXCEPT !.pc = "open", !.total = total,
                               !.avail = avail]]
     /\ UNCHANGED <<fs, call, prev>>

\* open(tmp, "w") / open(tmp_file_path, "wb"); in atomic_write_with the
\* callback opens the path it is given
Open(p) ==
  LET pr == procs[p]
      h == [open |-> TRUE, linked |-> TRUE, target |-> pr.tmp, pos |-> 0,
            buf |-> <<>>]
  IN /\ pr.pc = "open"
     /\ \/ /\ fs' = Truncate(fs, pr.tmp)
           /\ procs' = [procs EXCEPT ![p] =
                [pr EXCEPT !.h = h, !.created = TRUE,
                           !.pc = IF Due(pr) > 0 THEN "write"
                                  ELSE IF Streaming(pr) THEN "replace"
                                  ELSE "close"]]
        \/ /\ procs' = [procs EXCEPT ![p] = Raised(pr, "OSError")]
           /\ UNCHANGED fs
     /\ UNCHANGED <<call, prev>>

\* the callback of atomic_write_with returns without having written the path
CallbackSkips(p) ==
  LET pr == procs[p]
  IN /\ pr.pc = "open"
     /\ pr.op = "atomic_write_with"
     /\ procs' = [procs EXCEPT ![p] = [pr EXCEPT !.pc = "replace"]]
     /\ UNCHANGED <<fs, call, prev>>

\* f.write: the next chunk goes into the buffer, which may be flushed; or
\* the write fails and the with statement closes the file
Write(p) ==
  LET pr == procs[p]
      h1 == [pr.h EXCEPT !.buf = Append(@, Data(p)[pr.sent + 1])]
      after == IF pr.sent + 1 < Due(pr) THEN "write"
               ELSE IF Streaming(pr) THEN "replace" ELSE "close"
  IN /\ pr.pc = "write"
     /\ \/ \E flush \in BOOLEAN :
             /\ fs' = IF flush THEN Flush(fs, h1) ELSE fs
             /\ procs' = [procs EXCEPT ![p] =
                  [pr EXCEPT !.h = IF flush THEN Flushed(h1) ELSE h1,
                             !.sent = @ + 1, !.pc = after]]
        \/ /\ fs' = Flush(fs, pr.h)
           /\ procs' = [procs EXCEPT ![p] = Raised(pr, "OSError")]
     /\ UNCHANGED <<call, prev>>

\* the with statement closes the file: the buffer is flushed, or the flush
\* fails and the buffered data is lost
Close(p) ==
  LET pr == procs[p]
  IN /\ pr.pc = "close"
     /\ \/ /\ fs' = Flush(fs, pr.h)
           /\ procs' = [procs EXCEPT ![p] =
                IF Streaming(pr) THEN [pr EXCEPT !.h = NoHandle, !.pc = "finally"]
                ELSE [pr EXCEPT !.h = NoHandle, !.pc = "replace"]]
        \/ /\ procs' = [procs EXCEPT ![p] = Raised(pr, "OSError")]
           /\ UNCHANGED fs
     /\ UNCHANGED <<call, prev>>

\* tmp.replace(destination); a failure inside the streaming download's with
\* statement closes the file on the way out
Replace(p) ==
  LET pr == procs[p]
  IN /\ pr.pc = "replace"
     /\ \/ /\ pr.tmp \in Files
           /\ fs' = Rename(fs, pr.tmp, pr.dest)
           /\ procs' = AfterRename(p,
                [pr EXCEPT !.renamed = TRUE,
                           !.published = Snapshot(pr.tmp, fs),
                           !.pc = IF Streaming(pr) THEN "close" ELSE "finally"],
                pr.tmp, pr.dest)
        \/ /\ fs' = Flush(fs, pr.h)
           /\ procs' = [procs EXCEPT ![p] =
                Raised(pr, IF pr.tmp \in Files THEN "OSError"
                           ELSE "FileNotFoundError")]
     /\ UNCHANGED <<call, prev>>

\* finally: if tmp.exists():
Finally(p) ==
  LET pr == procs[p]
  IN /\ pr.pc = "finally"
     /\ procs' = [procs EXCEPT ![p] =
          IF TmpExists(pr.tmp, Files) THEN [pr EXCEPT !.pc = "unlink"]
          ELSE Leave(pr)]
     /\ UNCHANGED <<fs, call, prev>>

\* tmp.unlink(): an exception raised here replaces the pending one
Unlink(p) ==
  LET pr == procs[p]
  IN /\ pr.pc = "unlink"
     /\ \/ /\ pr.tmp \in Files
           /\ fs' = Remove(fs, pr.tmp)
           /\ procs' = AfterUnlink(p, Leave(pr), pr.tmp)
        \/ /\ Cardinality(Leftover \ {pr.tmp}) < MaxLeftover
           /\ procs' = [procs EXCEPT ![p] =
                [pr EXCEPT !.pc = "failed", !.cleanupFailed = TRUE,
                           !.exc = IF pr.tmp \in Files THEN "OSError"
                                   ELSE "FileNotFoundError",
                           !.site = "unlink",
                           !.firstSite = IF @ = "none" THEN "unlink" ELSE @]]
           /\ UNCHANGED fs
     /\ UNCHANGED <<call, prev>>

\* if total_size != 0 and _progress_bar.n != total_size: raise
LengthCheck(p) ==
  LET pr == procs[p]
  IN /\ pr.pc = "check"
     /\ procs' = [procs EXCEPT ![p] =
          IF pr.total # 0 /\ pr.sent # pr.total
          THEN [pr EXCEPT !.pc = "failed", !.exc = "RequestException",
                          !.first = "RequestException", !.site = "check",
                          !.firstSite = "check"]
          ELSE [pr EXCEPT !.pc = "done", !.res = pr.dest]]
     /\ UNCHANGED <<fs, call, prev>>

\* the call has returned or raised; the caller goes on
ReturnCall(p) ==
  LET pr == procs[p]
  IN /\ Over(pr)
     /\ prev.calls + 1 < MaxCalls
     /\ prev' = [op |-> pr.op, self |-> pr.self, fname |-> pr.fname,
                 progress |-> pr.progress, pc |-> pr.pc, res |-> pr.res,
                 reqs |-> pr.reqs, calls |-> prev.calls + 1]
     /\ procs' = [procs EXCEPT ![p] = Idle]
     /\ UNCHANGED <<fs, call>>

\* the steps of a call that is under way
Step(p) ==
  \/ TmpPath(p)
  \/ Resolve(p)
  \/ Get(p)
  \/ Open(p)
  \/ CallbackSkips(p)
  \/ Write(p)
  \/ Close(p)
  \/ Replace(p)
  \/ Finally(p)
  \/ Unlink(p)
  \/ LengthCheck(p)

\* one caller, one call after the other
InitAtomic ==
  /\ \E S \in SUBSET Preexisting : fs = [q \in S |-> OldData]
  /\ call = NoCall
  /\ procs = [q \in Procs |-> Idle]
  /\ prev = NoPrev

NextAtomic ==
  \/ StartAtomicWrite(1, InDir(FName))
  \/ StartAtomicWriteWith(1, InDir(FName))
  \/ \E path \in {InDir(FName), DirPath}, fname \in {<<>>, GName},
        progress \in BOOLEAN : StartOrDownload(1, path, fname, progress)
  \/ Step(1)
  \/ ReturnCall(1)

SpecAtomic == InitAtomic /\ [][NextAtomic]_vars

\* several callers at once, one call each
InitRace ==
  /\ \E S \in SUBSET {InDir(FName)} : fs = [q \in S |-> OldData]
  /\ call = NoCall
  /\ procs = [q \in Procs |-> Idle]
  /\ prev = NoPrev

NextRace ==
  \E p \in Procs :
    \/ StartAtomicWrite(p, InDir(FName))
    \/ StartAtomicWriteWith(p, InDir(FName))
    \/ \E path \in {InDir(FName), DirPath}, progress \in BOOLEAN :
         StartOrDownload(p, path, GName, progress)
    \/ Step(p)

SpecRace == InitRace /\ [][NextRace]_vars

\* ------------------------------------------------------------ suffix algebra runs
Init ==
  /\ fs = NoFiles
  /\ call = NoCall
  /\ procs = [q \in Procs |-> Idle]
  /\ prev = NoPrev

HasNumericalSuffix(n) ==
  /\ call = NoCall
  /\ call' = Called("has_numerical_suffix", InDir(n), has_numerical_suffix(InDir(n)))
  /\ UNCHANGED <<fs, procs, prev>>

HasPrimaryNumericalSuffix(n) ==
  /\ call = NoCall
  /\ call' = Called("has_primary_numerical_suffix", InDir(n),
                    has_primary_numerical_suffix(InDir(n)))
  /\ UNCHANGED <<fs, procs, prev>>

IncreaseNumericalWidth(n, n_digs) ==
  /\ call = NoCall
  /\ call' = CalledN("increase_numerical_width", InDir(n), n_digs,
                     increase_numerical_width(InDir(n), n_digs))
  /\ UNCHANGED <<fs, procs, prev>>

IncreaseNumericalWidthOld(n, n_digs) ==
  /\ call = NoCall
  /\ call' = CalledN("increase_numerical_width_old", InDir(n), n_digs,
                     increase_numerical_width_old(InDir(n), n_digs))
  /\ UNCHANGED <<fs, procs, prev>>

MakeNumericalSuffixNonprimary(n) ==
  /\ call = NoCall
  /\ call' = Called("make_numerical_suffix_nonprimary", InDir(n),
                    make_numerical_suffix_nonprimary(InDir(n)))
  /\ UNCHANGED <<fs, procs, prev>>

MakeNumericalSuffixPrimary(n) ==
  /\ call = NoCall
  /\ call' = Called("make_numerical_suffix_primary", InDir(n),
                    make_numerical_suffix_primary(InDir(n)))
  /\ UNCHANGED <<fs, procs, prev>>

WithSuffixes(n, sufs) ==
  /\ call = NoCall
  /\ call' = CalledWith("with_suffixes", InDir(n), sufs,
                        with_suffixes(InDir(n), sufs))
  /\ UNCHANGED <<fs, procs, prev>>

\* tok = <<>> is the call without a token
WithoutSuffix(n, tok) ==
  /\ call = NoCall
  /\ call' = CalledWith("without_suffix", InDir(n), tok,
                        without_suffix(InDir(n), tok))
  /\ UNCHANGED <<fs, procs, prev>>

WithoutSuffixOld(n, tok) ==
  /\ call = NoCall
  /\ call' = CalledWith("without_suffix_old", InDir(n), tok,
                        without_suffix_old(InDir(n), tok))
  /\ UNCHANGED <<fs, procs, prev>>

\* the caller takes the result; the next call starts afresh
Return ==
  /\ call # NoCall
  /\ call' = NoCall
  /\ UNCHANGED <<fs, procs, prev>>

\* the receivers a caller may pick: none while a call is under way
Receivers == IF call = NoCall THEN Names ELSE {}

Next ==
  \/ \E n \in Receivers : HasNumericalSuffix(n)
  \/ \E n \in Receivers : HasPrimaryNumericalSuffix(n)
  \/ \E n \in Receivers, n_digs \in 0..MaxWidth :
       IncreaseNumericalWidth(n, n_digs)
  \/ \E n \in Receivers, n_digs \in 0..MaxWidth :
       IncreaseNumericalWidthOld(n, n_digs)
  \/ \E n \in Receivers : MakeNumericalSuffixNonprimary(n)
  \/ \E n \in Receivers : MakeNumericalSuffixPrimary(n)
  \/ \E n \in Receivers, sufs \in TokenLists : WithSuffixes(n, sufs)
  \/ \E n \in Receivers, tok \in {<<>>} \cup Tokens : WithoutSuffix(n, tok)
  \/ \E n \in Receivers, tok \in Tokens : WithoutSuffixOld(n, tok)
  \/ Return

Spec == Init /\ [][Next]_vars

\* ------------------------------------------------------------ directory runs
InitDir == Init

\* (dir_ / name).touch()
Touch(n) ==
  /\ call = NoCall
  /\ Cardinality(Files) < MaxFiles
  /\ InDir(n) \notin Files
  /\ fs' = [q \in Files \cup {InDir(n)} |-> IF q \in Files THEN fs[q] ELSE <<>>]
  /\ call' = NoCall
  /\ UNCHANGED <<procs, prev>>

NextUnusedPath(n, start, n_digs) ==
  /\ call = NoCall
  /\ call' = [op |-> "next_unused_path", self |-> InDir(n), start |-> start,
              n_digs |-> n_digs, args |-> <<>>,
              res |-> next_unused_path(InDir(n), start, n_digs, Files)]
  /\ UNCHANGED <<fs, procs, prev>>

NextUnusedPathOld(n, start, n_digs) ==
  /\ call = NoCall
  /\ call' = [op |-> "next_unused_path_old", self |-> InDir(n), start |-> start,
              n_digs |-> n_digs, args |-> <<>>,
              res |-> next_unused_path_old(InDir(n), start, n_digs, Files)]
  /\ UNCHANGED <<fs, procs, prev>>

LastNumericalPath(n) ==
  /\ call = NoCall
  /\ \E listing \in Listings(Files) :
       call' = Called("last_numerical_path", InDir(n),
                      last_numerical_path(InDir(n), listing))
  /\ UNCHANGED <<fs, procs, prev>>

NextDir ==
  \/ \E n \in Family :
       \/ Touch(n)
       \/ \E start \in 0..MaxStart, n_digs \in 0..MaxPad :
            \/ NextUnusedPath(n, start, n_digs)
            \/ NextUnusedPathOld(n, start, n_digs)
       \/ LastNumericalPath(n)
  \/ Return

SpecDir == InitDir /\ [][NextDir]_vars

\* ------------------------------------------------------------ discovery runs
\* next_unused_path statement by statement: two callers probe the directory
\* while other actors create files in it.
Callers == {1, 2}
\* the paths asked about, and the files other actors may create
ProbeNames == {<<"f">>, <<"f", DOT, "1">>}
ProbeFiles ==
  {<<"f", DOT, "0">>, <<"f", DOT, "1">>, <<"f", DOT, "2">>,
   <<"f", DOT, "0", "0">>}

\* (dir_ / name).touch() on the name space: the file is made if it is not there
touch(F, path) ==
  [q \in DOMAIN F \cup {path} |-> IF q \in DOMAIN F THEN F[q] ELSE <<>>]

\* a method that makes the path it returns, to reserve it
ReturnedReserved(F, path) == touch(F, path)

\* return path: the path is handed back, the filesystem is as it was
Returned(F, path) == F

\* Path.next_unused_path(start, n_digs) is entered
StartNextUnusedPath(p, n, start, n_digs) ==
  /\ procs[p].pc = "idle"
  /\ procs' = [procs EXCEPT ![p] =
       [Idle EXCEPT !.pc = "first", !.op = "next_unused_path",
                    !.self = InDir(n), !.start = start, !.n_digs = n_digs,
                    !.before = fs]]
  /\ UNCHANGED <<fs, call, prev>>

\* the statements before the loop: the width, the counter, the first candidate
FirstCandidate(p) ==
  LET pr == procs[p]
      ext == afterDot(suffix(pr.self))
      num == isdigit(ext)
      w == IF num THEN Len(ext) ELSE pr.n_digs
      i == IF num THEN int(ext) + 1 ELSE pr.start
      path == IF num THEN Ok(pr.self) ELSE add_suffix(pr.self, <<DOT, "p", "h">>)
      c == Then(path, LAMBDA q : with_suffix(q, <<DOT>> \o zfill(str(i), w)))
  IN /\ pr.pc = "first"
     /\ procs' = [procs EXCEPT ![p] =
          IF c.tag = "ok"
          THEN [pr EXCEPT !.pc = "probe", !.n_digs = w, !.ext_i = i,
                          !.cand = c.val]
          ELSE [pr EXCEPT !.pc = "failed", !.exc = c.tag, !.first = c.tag]]
     /\ UNCHANGED <<fs, call, prev>>

\* while path.exists(): ext_i += 1; path = path.with_suffix(...); return path
ProbeCandidate(p) ==
  LET pr == procs[p]
      c == with_suffix(pr.cand, <<DOT>> \o zfill(str(pr.ext_i + 1), pr.n_digs))
  IN /\ pr.pc = "probe"
     /\ IF exists(pr.cand, Files)
        THEN /\ procs' = [procs EXCEPT ![p] =
                  IF c.tag = "ok"
                  THEN [pr EXCEPT !.ext_i = @ + 1, !.cand = c.val]
                  ELSE [pr EXCEPT !.pc = "failed", !.exc = c.tag,
                                  !.first = c.tag]]
             /\ UNCHANGED fs
        ELSE /\ procs' = [procs EXCEPT ![p] =
                  [pr EXCEPT !.pc = "done", !.res = pr.cand]]
             /\ fs' = Returned(fs, pr.cand)
     /\ UNCHANGED <<call, prev>>

\* another actor creates a file in the directory
CreateFile(n) ==
  /\ Cardinality(Files) < MaxFiles
  /\ InDir(n) \notin Files
  /\ fs' = touch(fs, InDir(n))
  /\ UNCHANGED <<call, procs, prev>>

InitAdvisory == Init

NextAdvisory ==
  \/ \E p \in Callers, n \in ProbeNames, start \in 0..MaxStart,
        n_digs \in 1..MaxPad : StartNextUnusedPath(p, n, start, n_digs)
  \/ \E p \in Callers : FirstCandidate(p)
  \/ \E p \in Callers : ProbeCandidate(p)
  \/ \E n \in ProbeFiles : CreateFile(n)

SpecAdvisory == InitAdvisory /\ [][NextAdvisory]_vars

\* ------------------------------------------------------------ properties
LastNumeric(p) == isdigit(afterDot(suffix(p)))
NumValue(p) == int(afterDot(suffix(p)))
\* the path's name with a trailing numeric suffix stripped
BaseName(p) == IF LastNumeric(p) THEN stem(p) ELSE name(p)

\* the candidate of counter c at width w
Candidate(p, c, w) ==
  Append(parent(p), BaseName(p) \o <<DOT>> \o zfill(str(c), w))
\* the first unused candidate, counting from c0
FirstUnused(p, c0, w, files) ==
  LET free(c) == ~exists(Candidate(p, c, w), files)
      c == CHOOSE c \in c0..(c0 + Cardinality(files)) :
             free(c) /\ \A k \in c0..(c - 1) : ~free(k)
  IN Candidate(p, c, w)
ExpectedNextUnused(p, start, pad, files) ==
  IF LastNumeric(p)
  THEN FirstUnused(p, NumValue(p) + 1, Len(suffix(p)) - 1, files)
  ELSE FirstUnused(p, start, pad, files)

NextUnusedAsSpecified ==
  /\ call.res.tag = "ok"
  /\ call.res.val = ExpectedNextUnused(call.self, call.start, call.n_digs, Files)
  /\ ~exists(call.res.val, Files)

\* C7: next_unused_path returns the path with the last suffix replaced (or a
\* suffix appended, when the last one is not numeric) by the smallest counter
\* c >= c0 whose candidate does not exist, zero-padded to the width of the
\* numeric last suffix or else to pad_width; the result does not exist.
\* Stated of both copies of the method.
C7_NextUnusedPath ==
  call.op \in {"next_unused_path", "next_unused_path_old"} => NextUnusedAsSpecified

\* the same of the current copy (src/src/betterpathlib/main.py) alone
NextUnusedPathCurrent ==
  call.op = "next_unused_path" => NextUnusedAsSpecified
NextUnusedPathSkips ==
  /\ call.op = "next_unused_path"
  /\ LastNumeric(call.self)
  /\ call.res.tag = "ok"
  /\ NumValue(call.res.val) > NumValue(call.self) + 1

\* the entries the highest-numbered lookup chooses among
Numbered(p, files) ==
  {q \in files : /\ parent(q) = parent(p)
                 /\ startswith(name(q), BaseName(p) \o <<DOT>>)
                 /\ LastNumeric(q)}

\* C8: last_numerical_path returns an entry of greatest numeric value among
\* the entries named <base>.<...> whose last suffix is numeric (whatever the
\* enumeration order, when one entry attains the maximum).
C8_LastNumericalPath ==
  (call.op = "last_numerical_path" /\ Numbered(call.self, Files) # {}) =>
     /\ call.res.tag = "ok"
     /\ call.res.val \in Numbered(call.self, Files)
     /\ \A q \in Numbered(call.self, Files) :
          NumValue(q) <= NumValue(call.res.val)

\* C9: last_numerical_path fails with FileNotFoundError whenever no entry
\* matches the base pattern with a numeric last suffix, and never returns a
\* path whose last suffix is not numeric.
C9_NotFound ==
  call.op = "last_numerical_path" =>
     /\ Numbered(call.self, Files) = {} => call.res.tag = "FileNotFoundError"
     /\ call.res.tag = "ok" => LastNumeric(call.res.val)

\* C10: has_primary_numerical_suffix never raises, returns TRUE iff the
\* suffix list is non-empty with a numeric last entry, and implies
\* has_numerical_suffix.
C10_PrimaryTotal ==
  call.op = "has_primary_numerical_suffix" =>
     /\ call.res.tag = "ok"
     /\ call.res.val = (/\ Len(suffixes(call.self)) > 0
                        /\ isdigit(afterDot(Last(suffixes(call.self)))))
     /\ call.res.val => has_numerical_suffix(call.self).val

\* the complete content of caller p, as a reader sees it
NewContent(p) == [present |-> TRUE, bytes |-> Data(p)]

\* C1: during and after a single atomic_write, whatever step fails, a reader
\* of the destination sees its prior content (or absence) or the complete
\* new content, never a part; a call that fails before the rename leaves
\* the prior content.
C1_AtomicWrite ==
  LET pr == procs[1]
  IN pr.op = "atomic_write" =>
       /\ Snapshot(pr.dest, fs) \in {pr.prior, NewContent(1)}
       /\ (pr.exc # "none" /\ ~pr.renamed) => Snapshot(pr.dest, fs) = pr.prior
\* a write that failed after part of the data, over an existing destination
C1_FailedMidWrite ==
  LET pr == procs[1]
  IN /\ pr.op = "atomic_write" /\ pr.pc = "failed"
     /\ pr.sent > 0 /\ pr.sent < DataLen
     /\ pr.prior.present /\ pr.prior.bytes = OldData

\* C2: when atomic_write, atomic_write_with or or_download is over, by
\* return or by an exception of open, write, callback, transfer or rename,
\* the temporary file the call made is gone (renamed away or removed).  The
\* removal itself must not have failed.
C2_TmpRemoved ==
  LET pr == procs[1]
  IN (Over(pr) /\ pr.created /\ ~pr.cleanupFailed) => pr.tmp \notin Files
\* a call that made its temporary file, wrote into it and then failed
C2_FailedAfterCreate ==
  LET pr == procs[1]
  IN /\ pr.pc = "failed" /\ pr.created /\ pr.sent > 0
     /\ ~pr.renamed /\ ~pr.cleanupFailed

\* C3: with atomic_write calls racing for one destination, the destination
\* always holds the prior content or the complete content of one writer,
\* and a call that returns has published its own complete content.
C3_LastRenameWins ==
  (\A p \in Procs : procs[p].op \in {"none", "atomic_write"}) =>
     /\ Snapshot(InDir(FName), fs) \in
          {Gone, [present |-> TRUE, bytes |-> OldData]}
            \cup {NewContent(p) : p \in Procs}
     /\ \A p \in Procs :
          procs[p].pc = "done" => procs[p].published = NewContent(p)

\* C4: no two calls in flight use the same temporary path.
C4_ExclusiveTmp ==
  \A p, q \in Procs :
    (/\ p # q
     /\ InFlight(procs[p]) /\ InFlight(procs[q])
     /\ procs[p].tmp # <<>> /\ procs[q].tmp # <<>>)
    => procs[p].tmp # procs[q].tmp

\* C5: or_download on a destination that is already there makes no request,
\* makes no temporary file, leaves the destination as it is and returns its
\* path; so the second of two successive calls with the same arguments
\* makes no request and returns what the first returned.
C5_FastPath ==
  LET pr == procs[1]
  IN (pr.op = "or_download" /\ pr.pc # "resolve") =>
       /\ pr.prior.present =>
            /\ pr.pc = "done" /\ pr.res = pr.dest
            /\ pr.reqs = 0 /\ ~pr.created
            /\ Snapshot(pr.dest, fs) = pr.prior
       /\ (/\ prev.op = "or_download" /\ prev.pc = "done"
           /\ prev.self = pr.self /\ prev.fname = pr.fname
           /\ prev.progress = pr.progress) =>
            /\ pr.pc = "done" /\ pr.res = prev.res
            /\ pr.reqs = 0
\* a second call after a first that downloaded
C5_SecondCall ==
  LET pr == procs[1]
  IN /\ prev.op = "or_download" /\ prev.pc = "done" /\ prev.reqs = 1
     /\ pr.op = "or_download" /\ pr.pc = "done"
     /\ prev.self = pr.self /\ prev.fname = pr.fname
     /\ prev.progress = pr.progress

\* C6: or_download publishes only the complete body: the destination it
\* fetches never holds a part of the body, and a failed call leaves it
\* absent.
C6_PublishComplete ==
  LET pr == procs[1]
  IN (pr.op = "or_download" /\ pr.pc # "resolve" /\ ~pr.prior.present) =>
       /\ Snapshot(pr.dest, fs) \in {Gone, NewContent(1)}
       /\ pr.pc = "failed" => Snapshot(pr.dest, fs) = Gone

\* ------------------------------------------------------------ properties of the suffix algebra
NumericToken(t) == isdigit(afterDot(t))
\* the last suffix is numeric
PrimaryNumeric(p) == Len(suffixes(p)) > 0 /\ NumericToken(Last(suffixes(p)))
\* the name before its suffixes: name == PreStem + concat(suffixes)
PreStem(p) == SubSeq(name(p), 1, Len(name(p)) - Len(join(suffixes(p))))
\* q is p with the suffix list `sufs`
SameButSuffixes(q, p, sufs) ==
  /\ parent(q) = parent(p)
  /\ PreStem(q) = PreStem(p)
  /\ suffixes(q) = sufs
\* the first place of token t in the list, 0 when it does not occur
FirstAt(sufs, t) ==
  IF \E i \in 1..Len(sufs) : sufs[i] = t
  THEN CHOOSE i \in 1..Len(sufs) : sufs[i] = t /\ \A j \in 1..(i - 1) : sufs[j] # t
  ELSE 0
FirstNumericAt(sufs) ==
  CHOOSE i \in 1..Len(sufs) :
    NumericToken(sufs[i]) /\ \A j \in 1..(i - 1) : ~NumericToken(sufs[j])
IncreaseOps == {"increase_numerical_width", "increase_numerical_width_old"}

\* C11: increase_numerical_width fails with ValueError whenever the last
\* suffix is not numeric, also when an earlier suffix is; when it returns,
\* only the last suffix differs from the input and it has the same value.
C11_InvalidSuffix ==
  call.op \in IncreaseOps =>
    LET p == call.self
        sufs == suffixes(p)
    IN IF ~PrimaryNumeric(p) THEN call.res.tag = "ValueError"
       ELSE call.res.tag = "ok" =>
              LET out == suffixes(call.res.val)
              IN /\ parent(call.res.val) = parent(p)
                 /\ PreStem(call.res.val) = PreStem(p)
                 /\ Len(out) = Len(sufs)
                 /\ \A i \in 1..(Len(sufs) - 1) : out[i] = sufs[i]
                 /\ NumericToken(Last(out))
                 /\ int(afterDot(Last(out))) = int(afterDot(Last(sufs)))

\* C12: for a numeric last suffix of width w, increase_numerical_width(p, w)
\* returns p, and increase_numerical_width(p, n) for n < w fails instead of
\* returning a path.
C12_WidthTooSmall ==
  (call.op \in IncreaseOps /\ PrimaryNumeric(call.self)) =>
    LET w == Len(afterDot(Last(suffixes(call.self))))
    IN /\ call.n_digs = w => call.res = Ok(call.self)
       /\ call.n_digs < w => call.res.tag = "ValueError"

\* C13: make_numerical_suffix_nonprimary fails with ValueError when the last
\* suffix is not numeric or there is no suffix; otherwise it returns the path
\* with the numeric last token and the token before it swapped (a list of
\* the numeric token alone stays as it is), parent and stem kept.
C13_Nonprimary ==
  call.op = "make_numerical_suffix_nonprimary" =>
    LET p == call.self
        sufs == suffixes(p)
        k == Len(sufs)
    IN IF ~PrimaryNumeric(p) THEN call.res.tag = "ValueError"
       ELSE /\ call.res.tag = "ok"
            /\ SameButSuffixes(call.res.val, p,
                 IF k = 1 THEN sufs
                 ELSE SubSeq(sufs, 1, k - 2) \o <<sufs[k], sufs[k - 1]>>)

\* C14: make_numerical_suffix_primary fails with ValueError when no suffix is
\* numeric; otherwise it returns the path, parent and stem kept, whose suffix
\* list is the original with the leftmost numeric token moved to the end, so
\* that has_primary_numerical_suffix holds of the result.
C14_Primary ==
  call.op = "make_numerical_suffix_primary" =>
    LET p == call.self
        sufs == suffixes(p)
    IN IF ~\E i \in 1..Len(sufs) : NumericToken(sufs[i])
       THEN call.res.tag = "ValueError"
       ELSE /\ call.res.tag = "ok"
            /\ SameButSuffixes(call.res.val, p,
                 Append(del(sufs, FirstNumericAt(sufs)), sufs[FirstNumericAt(sufs)]))
            /\ has_primary_numerical_suffix(call.res.val) = Ok(TRUE)

\* C15: for a path with exactly one numeric suffix token, in the last place,
\* make_numerical_suffix_primary after make_numerical_suffix_nonprimary gives
\* the path back, the numeric token last again.
C15_RoundTrip ==
  LET p == call.self
      sufs == suffixes(p)
  IN (/\ call.op = "make_numerical_suffix_nonprimary"
      /\ PrimaryNumeric(p)
      /\ \A i \in 1..(Len(sufs) - 1) : ~NumericToken(sufs[i])) =>
       /\ call.res.tag = "ok"
       /\ make_numerical_suffix_primary(call.res.val) = Ok(p)

\* C16: with_suffixes(p, S) keeps parent and stem, its suffixes read back are
\* S with every token dot-prefixed, and without_suffixes of it equals
\* without_suffixes(p), which is parent / stem.
C16_WithSuffixes ==
  call.op = "with_suffixes" =>
    LET p == call.self
        S == call.args
    IN /\ call.res.tag = "ok"
       /\ SameButSuffixes(call.res.val, p, [i \in 1..Len(S) |-> dotted(S[i])])
       /\ without_suffixes(call.res.val) = without_suffixes(p)
       /\ without_suffixes(p) = Append(parent(p), PreStem(p))

\* C17: without_suffix with a token removes the first suffix equal to it and
\* keeps all others, later duplicates too; without a token it removes the
\* last suffix; when the token does not occur the result is the path itself.
C17_WithoutSuffix ==
  call.op \in {"without_suffix", "without_suffix_old"} =>
    LET p == call.self
        sufs == suffixes(p)
        at == FirstAt(sufs, dotted(call.args))
    IN /\ call.res.tag = "ok"
       /\ IF call.args = <<>>
          THEN SameButSuffixes(call.res.val, p, SubSeq(sufs, 1, Len(sufs) - 1))
          ELSE IF at = 0 THEN call.res.val = p
          ELSE SameButSuffixes(call.res.val, p, del(sufs, at))

\* ------------------------------------------------------------ properties of the atomic mutation layer, continued
\* C18: or_download on a directory with a URL that yields no file name fails
\* with ValueError before any request and before any file is created,
\* replaced or removed.
C18_CannotDetermineFilename ==
  LET pr == procs[1]
  IN (/\ pr.op = "or_download" /\ pr.pc # "resolve"
      /\ is_dir(pr.self) /\ Len(pr.fname) = 0) =>
       /\ pr.pc = "failed" /\ pr.exc = "ValueError"
       /\ pr.reqs = 0
       /\ ~pr.created /\ ~pr.renamed
       /\ fs = pr.before
\* such a call has failed, in a directory that holds files
C18_NoFileNameCall ==
  LET pr == procs[1]
  IN /\ pr.op = "or_download" /\ pr.pc = "failed"
     /\ is_dir(pr.self) /\ Len(pr.fname) = 0
     /\ InDir(GName) \in Files

\* C19: the temporary path is a sibling of the destination that names no
\* file there when the call starts, so every file but the destination is
\* left as it was, whatever the directory held.
C19_TmpSibling ==
  LET pr == procs[1]
  IN pr.op # "none" =>
       /\ pr.tmp # <<>> =>
            /\ parent(pr.tmp) = parent(pr.dest)
            /\ pr.tmp \notin DOMAIN pr.before
       /\ \A q \in DOMAIN pr.before :
            q # pr.dest => q \in Files /\ fs[q] = pr.before[q]

\* C20: when a call fails in open, write, close or rename and the removal of
\* the temporary file fails too, the caller gets the first error, not the
\* error of the removal.
C20_OriginalErrorSurfaces ==
  LET pr == procs[1]
  IN (/\ pr.pc = "failed" /\ pr.cleanupFailed
      /\ pr.firstSite \in {"open", "write", "close", "replace"}) =>
       pr.site = pr.firstSite

\* ------------------------------------------------------------ properties of discovery
Probing(pr) == pr.op = "next_unused_path"
\* a step of a next_unused_path call
ProbeStep ==
  \E p \in Callers :
    /\ procs'[p] # procs[p]
    /\ Probing(procs[p]) \/ Probing(procs'[p])
\* two finished calls on one path with like arguments, nothing created since
\* the earlier of them began
SameQuestion(a, b) ==
  /\ Probing(a) /\ Probing(b)
  /\ Over(a) /\ Over(b)
  /\ a.self = b.self /\ a.start = b.start
  /\ a.before = fs /\ b.before = fs

\* C21: next_unused_path creates, modifies and removes nothing, and two
\* callers that run it on the same path, one after the other or interleaved,
\* with nothing created in between, get the same path (the path the method
\* computes from the directory as it stands).
C21_Advisory ==
  /\ [][ProbeStep => fs' = fs]_vars
  /\ [](\A p, q \in Callers :
          (SameQuestion(procs[p], procs[q])
             /\ (LastNumeric(procs[p].self) \/ procs[p].n_digs = procs[q].n_digs)) =>
            /\ procs[p].pc = "done" /\ procs[q].pc = "done"
            /\ procs[p].res = procs[q].res
            /\ Ok(procs[p].res) =
                 next_unused_path(procs[p].self, procs[p].start,
                                  procs[p].n_digs, Files))
\* both callers have asked about one path in a directory where the loop had
\* to step over existing candidates
C21_BothAnswered ==
  /\ SameQuestion(procs[1], procs[2])
  /\ procs[1].n_digs = procs[2].n_digs
  /\ Cardinality(Files) >= 2
  /\ procs[1].pc = "done" /\ procs[2].pc = "done"
  /\ procs[1].ext_i > procs[1].start + 1
====
